---------------------------- MODULE Spec2Model ----------------------------
(***************************************************************************)
(* Monte Carlo stock simulator (src/main.py): the download retry loop, the *)
(* parameter estimator, the GBM path simulator, the risk metrics and the   *)
(* result record of run_monte_carlo, and its HTTP endpoint.                *)
(*                                                                         *)
(* Numbers.  The program computes in IEEE doubles.  The model computes in  *)
(* a small decimal fixed-point format with the same special values: a      *)
(* finite number is an integer count of ticks (1.0 is Scale ticks), a      *)
(* result too large for the format is an infinity, a result too small is   *)
(* zero, and an undefined result (0/0, inf-inf, sqrt of a negative) is     *)
(* NaN.  A number is a record [k, v]: k is "fin", "inf" or "nan".          *)
(***************************************************************************)
EXTENDS Integers, Sequences, FiniteSets, TLC

VARIABLES
    rng,       \* the state of the generator created last
    gbm,       \* the last direct call of simulate_gbm: its arguments and result
    gbmRef,    \* an earlier direct call, kept to compare a later one with
    gbmOther,  \* a call with other arguments was made since gbmRef
    pc,        \* where the call of run_monte_carlo stands
    call,      \* its arguments
    attempt,   \* the loop variable of the download loop
    tried,     \* what each download attempt did: "raise", "none", "empty", "data"
    data,      \* the table downloaded
    close,     \* the cleaned price column
    est,       \* the estimates
    S_paths,   \* the path matrix
    risk,      \* the risk metrics
    result,    \* the record returned
    err,       \* the exception raised
    response   \* the endpoint's response

\* ---------------------------------------------------------------- bounds
\* decimal digits after the point kept by the number format
Digits == 2
\* the largest finite number of the format, in ticks
MaxNum == 40000
\* the longest downloaded price table
MaxLen == 3
\* the largest number of simulated paths and of steps
MaxSims == 3
MaxSteps == 2
\* the number of states of the random generator
RngStates == 16

\* ------------------------------------------------------- program constants
\* trading days per year (annualisation)
TradingDays == 252
\* download attempts
MaxAttempts == 2
\* the seed simulate_gbm uses when none is given
DefaultSeed == 123
\* the percentile of the value at risk
VarPct == 5

RECURSIVE Pow10(_)
Pow10(n) == IF n = 0 THEN 1 ELSE 10 * Pow10(n - 1)

Scale == Pow10(Digits)

\* ---------------------------------------------------------------- numbers
Fin(n) == [k |-> "fin", v |-> n]
NaN == [k |-> "nan", v |-> 0]
PInf == [k |-> "inf", v |-> 1]
NInf == [k |-> "inf", v |-> -1]
Inf(s) == IF s > 0 THEN PInf ELSE NInf

IsNaN(a) == a.k = "nan"
IsInf(a) == a.k = "inf"
IsFinite(a) == a.k = "fin"

Abs(n) == IF n < 0 THEN -n ELSE n
Sgn(n) == IF n > 0 THEN 1 ELSE IF n < 0 THEN -1 ELSE 0

\* integer division rounding toward zero
TDiv(n, d) == Sgn(n) * Sgn(d) * (Abs(n) \div Abs(d))

\* a result of an operation, brought into the format (overflow is infinite)
Sat(n) == IF n > MaxNum THEN PInf ELSE IF n < -MaxNum THEN NInf ELSE Fin(n)

\* the literal with integer part i and hundredths h (i.h), in ticks
Lit(i, h) == Fin(i * Scale + TDiv(h * Scale, 100))

FNeg(a) == IF IsNaN(a) THEN NaN ELSE [k |-> a.k, v |-> -a.v]

FAdd(a, b) ==
    IF IsNaN(a) \/ IsNaN(b) THEN NaN
    ELSE IF IsInf(a) /\ IsInf(b) THEN (IF a.v = b.v THEN a ELSE NaN)
    ELSE IF IsInf(a) THEN a
    ELSE IF IsInf(b) THEN b
    ELSE Sat(a.v + b.v)

FSub(a, b) == FAdd(a, FNeg(b))

FMul(a, b) ==
    IF IsNaN(a) \/ IsNaN(b) THEN NaN
    ELSE IF IsInf(a) \/ IsInf(b)
         THEN (IF Sgn(a.v) * Sgn(b.v) = 0 THEN NaN ELSE Inf(Sgn(a.v) * Sgn(b.v)))
    ELSE Sat(TDiv(a.v * b.v, Scale))

\* numpy's true division: x/0 is an infinity, 0/0 is NaN (with a warning)
FDiv(a, b) ==
    IF IsNaN(a) \/ IsNaN(b) THEN NaN
    ELSE IF IsInf(a) /\ IsInf(b) THEN NaN
    ELSE IF IsInf(a) THEN Inf(a.v * (IF b.v < 0 THEN -1 ELSE 1))
    ELSE IF IsInf(b) THEN Fin(0)
    ELSE IF b.v = 0 THEN (IF a.v = 0 THEN NaN ELSE Inf(a.v))
    ELSE Sat(TDiv(a.v * Scale, b.v))

\* IEEE comparisons: every comparison with NaN is false
FLe(a, b) ==
    /\ ~IsNaN(a) /\ ~IsNaN(b)
    /\ IF IsInf(a) THEN (a.v < 0 \/ (IsInf(b) /\ b.v > 0))
       ELSE IF IsInf(b) THEN b.v > 0
       ELSE a.v <= b.v
FEq(a, b) == FLe(a, b) /\ FLe(b, a)
FLt(a, b) == FLe(a, b) /\ ~FLe(b, a)

RECURSIVE ISqrtBetween(_, _, _)
\* the largest r in lo..hi with r*r <= n (lo*lo <= n)
ISqrtBetween(n, lo, hi) ==
    IF lo >= hi THEN lo
    ELSE LET mid == (lo + hi + 1) \div 2
         IN IF mid * mid <= n THEN ISqrtBetween(n, mid, hi)
            ELSE ISqrtBetween(n, lo, mid - 1)

\* np.sqrt: NaN for a negative number (with a warning)
FSqrt(a) ==
    IF IsNaN(a) THEN NaN
    ELSE IF IsInf(a) THEN (IF a.v > 0 THEN PInf ELSE NaN)
    ELSE IF a.v < 0 THEN NaN
    ELSE Fin(ISqrtBetween(a.v * Scale, 0, MaxNum))

RECURSIVE Pow2From(_, _)
\* acc * 2^k, the doubling stopped once the value exceeds MaxNum
Pow2From(k, acc) ==
    IF k = 0 \/ acc > MaxNum THEN acc ELSE Pow2From(k - 1, 2 * acc)

\* 2^k, or a number above MaxNum once 2^k exceeds it
Pow2Sat(k) == Pow2From(k, 1)

\* np.exp on the format: the exponential to base 2, linear between the
\* integers; it overflows to +inf and underflows to 0, as np.exp does
FExp(a) ==
    IF IsNaN(a) THEN NaN
    ELSE IF IsInf(a) THEN (IF a.v > 0 THEN PInf ELSE Fin(0))
    ELSE LET k == a.v \div Scale
             f == a.v % Scale
         IN IF k >= 0
            THEN (IF Pow2Sat(k) > MaxNum THEN PInf ELSE Sat(Pow2Sat(k) * (Scale + f)))
            ELSE Fin((Scale + f) \div Pow2Sat(-k))

\* ------------------------------------------------------- random generator
\* np.random.default_rng(seed): a fresh generator whose state the seed alone
\* decides
default_rng(seed) == seed % RngStates

\* one step of the generator
RngStep(s) == (5 * s + 3) % RngStates

RECURSIVE RngAfter(_, _)
\* the generator's state after k draws
RngAfter(s, k) == IF k = 0 THEN s ELSE RngAfter(RngStep(s), k - 1)

\* the standard normal value drawn in state s (one of -1.5, -0.5, 0, 0.5, 1.5)
NormalOf(s) == Lit(0, <<-150, -50, 0, 50, 150>>[(s % 5) + 1])

\* rng.standard_normal(size=(n, m)): n*m draws, filled row by row
standard_normal(s, n, m) ==
    [i \in 1..n |-> [j \in 1..m |-> NormalOf(RngAfter(s, (i - 1) * m + j))]]

\* ------------------------------------------------------- simulate_gbm
RECURSIVE cumsum(_)
\* np.cumsum along a row
cumsum(row) ==
    IF Len(row) <= 1 THEN row
    ELSE LET before == cumsum(SubSeq(row, 1, Len(row) - 1))
         IN Append(before, FAdd(before[Len(before)], row[Len(row)]))

\* the two scalars of the increments: (mu - 0.5 * sigma**2) * dt and
\* sigma * np.sqrt(dt)
drift_term(mu, sigma, dt) ==
    FMul(FSub(mu, FMul(Lit(0, 50), FMul(sigma, sigma))), dt)
vol_term(sigma, dt) == FMul(sigma, FSqrt(dt))

\* (mu - 0.5 * sigma**2) * dt + sigma * np.sqrt(dt) * Z, for one draw z
increment(drift, vol, z) == FAdd(drift, FMul(vol, z))

\* S0 * np.exp(log_paths), for one entry
path_entry(S0, logp) == FMul(S0, FExp(logp))

\* the spot price put behind the simulated prices instead of in front
hstack_row_behind(S0, row) == row \o <<S0>>

\* np.hstack([np.full((n_sims, 1), S0), S_paths]), for one row
hstack_row(S0, row) == <<S0>> \o row

\* one generator shared by all calls: a call draws on from where the last
\* one stopped
path_rng_shared(seed) == rng

\* the generator simulate_gbm draws from
path_rng(seed) == default_rng(seed)

\* one row of the matrix: the increments of the row's draws, their running
\* sum, the prices, and S0 in front
path_row(S0, drift, vol, zrow) ==
    LET increments == [j \in 1..Len(zrow) |-> increment(drift, vol, zrow[j])]
        log_paths == cumsum(increments)
        prices == [j \in 1..Len(zrow) |-> path_entry(S0, log_paths[j])]
    IN hstack_row(S0, prices)

\* simulate_gbm(S0, mu, sigma, T, steps, n_sims, seed): the exception raised
\* ("" when none), the matrix returned and the generator's state at the end.
\* T and steps are Python numbers (T / 0 raises); a negative dimension makes
\* standard_normal raise.
simulate_gbm(S0, mu, sigma, T, steps, n_sims, seed) ==
    LET s0 == path_rng(seed)
    IN IF steps = 0
       THEN [err |-> "ZeroDivisionError", paths |-> <<>>, rng |-> s0]
       ELSE IF n_sims < 0 \/ steps < 0
       THEN [err |-> "ValueError", paths |-> <<>>, rng |-> s0]
       ELSE LET dt == FDiv(T, Fin(steps * Scale))
                Z == standard_normal(s0, n_sims, steps)
                drift == drift_term(mu, sigma, dt)
                vol == vol_term(sigma, dt)
            IN [err |-> "",
                paths |-> [i \in 1..n_sims |-> path_row(S0, drift, vol, Z[i])],
                rng |-> RngAfter(s0, n_sims * steps)]

\* ------------------------------------------------------- estimator
\* a missing value of a price column
Missing == NaN

\* Series.dropna / the NaN-free part of an array
dropna(xs) == SelectSeq(xs, LAMBDA x : ~IsNaN(x))

\* Series.pct_change: p[t] / p[t-1] - 1, undefined for the first point
pct_change(series) ==
    [t \in 1..Len(series) |->
        IF t = 1 THEN NaN
        ELSE FSub(FDiv(series[t], series[t - 1]), Lit(1, 0))]

RECURSIVE FSum(_)
FSum(xs) ==
    IF Len(xs) = 0 THEN Fin(0)
    ELSE FAdd(FSum(SubSeq(xs, 1, Len(xs) - 1)), xs[Len(xs)])

\* the mean of a series or an array: NaN when it is empty
mean(xs) == IF Len(xs) = 0 THEN NaN ELSE FDiv(FSum(xs), Fin(Len(xs) * Scale))

\* the squared deviations from m
sq_dev(xs, m) == [i \in 1..Len(xs) |-> FMul(FSub(xs[i], m), FSub(xs[i], m))]

\* the standard deviation with ddof degrees of freedom removed: NaN when no
\* degree of freedom is left
std_ddof(xs, ddof) ==
    IF Len(xs) - ddof <= 0 THEN NaN
    ELSE FSqrt(FDiv(FSum(sq_dev(xs, mean(xs))), Fin((Len(xs) - ddof) * Scale)))

\* Series.std(): the sample standard deviation (ddof = 1)
series_std(xs) == std_ddof(xs, 1)

\* ndarray.std(): the population standard deviation (ddof = 0)
array_std(xs) == std_ddof(xs, 0)

RECURSIVE FPow(_, _)
\* b ** n for an integer n >= 0, by squaring
FPow(b, n) ==
    IF n = 0 THEN Lit(1, 0)
    ELSE LET half == FPow(b, n \div 2)
             square == FMul(half, half)
         IN IF n % 2 = 1 THEN FMul(square, b) ELSE square

\* a Python float power raises OverflowError where the result leaves the format
PowOverflows(b, n) == IsFinite(b) /\ IsInf(FPow(b, n))

\* (1 + mu_daily) ** 252 - 1.0
annual_mu(mu_daily) ==
    FSub(FPow(FAdd(Lit(1, 0), mu_daily), TradingDays), Lit(1, 0))

\* np.sqrt of a whole number
FSqrtInt(n) == Fin(ISqrtBetween(n * Scale * Scale, 0, MaxNum))

\* sigma_daily * np.sqrt(252)
annual_sigma(sigma_daily) == FMul(sigma_daily, FSqrtInt(TradingDays))

\* lines 80-86: the estimates of a cleaned price series (not empty)
estimate(series) ==
    LET daily_returns == dropna(pct_change(series))
        mu_daily == mean(daily_returns)
        sigma_daily == series_std(daily_returns)
    IN [S0 |-> series[Len(series)],
        n_returns |-> Len(daily_returns),
        mu_daily |-> mu_daily,
        sigma_daily |-> sigma_daily,
        mu_annual |-> annual_mu(mu_daily),
        sigma_annual |-> annual_sigma(sigma_daily)]

\* ------------------------------------------------------- risk metrics
RECURSIVE Insert(_, _)
\* x put into the sorted sequence xs
Insert(x, xs) ==
    IF Len(xs) = 0 THEN <<x>>
    ELSE IF FLe(x, xs[1]) THEN <<x>> \o xs
    ELSE <<xs[1]>> \o Insert(x, Tail(xs))

RECURSIVE Sorted(_)
Sorted(xs) == IF Len(xs) = 0 THEN <<>> ELSE Insert(xs[1], Sorted(Tail(xs)))

\* numpy's linear interpolation between two order statistics
lerp(a, b, t) ==
    LET diff_b_a == FSub(b, a)
    IN IF 2 * t.v >= Scale
       THEN FSub(b, FMul(diff_b_a, FSub(Lit(1, 0), t)))
       ELSE FAdd(a, FMul(diff_b_a, t))

\* np.percentile(xs, q) of a non-empty array: NaN if it holds a NaN, else the
\* value at the virtual index (n - 1) * q / 100 of the sorted array
percentile(xs, q) ==
    IF \E i \in 1..Len(xs) : IsNaN(xs[i]) THEN NaN
    ELSE LET arr == Sorted(xs)
             virtual_index == FMul(Fin((Len(xs) - 1) * Scale), FDiv(Lit(q, 0), Lit(100, 0)))
             previous == virtual_index.v \div Scale
             next == IF previous + 1 > Len(xs) - 1 THEN Len(xs) - 1 ELSE previous + 1
             gamma == Fin(virtual_index.v % Scale)
         IN lerp(arr[previous + 1], arr[next + 1], gamma)

\* the comparison turned round: the values at or above the bound
tail_of_above(xs, bound) == SelectSeq(xs, LAMBDA x : FLe(bound, x))

\* values[values <= bound]
tail_of(xs, bound) == SelectSeq(xs, LAMBDA x : FLe(x, bound))

\* xs[xs <= np.percentile(xs, 5)].mean()
expected_shortfall(xs, VaR95) == mean(tail_of(xs, VaR95))

\* S_paths[:, -1]
terminal_of(paths) == [i \in 1..Len(paths) |-> paths[i][Len(paths[i])]]

\* terminal_prices / S0 - 1.0
returns_of(terminal_prices, S0) ==
    [i \in 1..Len(terminal_prices) |-> FSub(FDiv(terminal_prices[i], S0), Lit(1, 0))]

\* (terminal_prices - S0) * position_shares
pnl_of(terminal_prices, S0, position_shares) ==
    [i \in 1..Len(terminal_prices) |->
        FMul(FSub(terminal_prices[i], S0), position_shares)]

\* lines 90-99: the risk metrics of a path matrix
risk_metrics(paths, S0, position_shares) ==
    LET terminal_prices == terminal_of(paths)
        terminal_returns == returns_of(terminal_prices, S0)
        VaR95_ret == percentile(terminal_returns, VarPct)
        pnl == pnl_of(terminal_prices, S0, position_shares)
        VaR95_pnl == percentile(pnl, VarPct)
    IN [terminal_prices |-> terminal_prices,
        terminal_returns |-> terminal_returns,
        pnl |-> pnl,
        VaR95_ret |-> VaR95_ret,
        ES95_ret |-> expected_shortfall(terminal_returns, VaR95_ret),
        VaR95_pnl |-> VaR95_pnl,
        ES95_pnl |-> expected_shortfall(pnl, VaR95_pnl)]

\* ------------------------------------------------------- result record
\* round(x, d) for a format of Digits decimals: the nearest multiple of the
\* last kept digit, a tie going to the even multiple
round_to(x, drop) ==
    IF ~IsFinite(x) THEN x
    ELSE LET step == Pow10(drop)
             lo == (x.v \div step) * step
             rest == x.v - lo
         IN IF 2 * rest < step THEN Fin(lo)
            ELSE IF 2 * rest > step THEN Sat(lo + step)
            ELSE IF (lo \div step) % 2 = 0 THEN Fin(lo) ELSE Sat(lo + step)

\* The record rounds returns and ratios to 4 decimals and amounts to 2, of the
\* 16 a double holds.  The format holds Digits decimals: a ratio loses its
\* last digit and an amount its last two.
round_ratio(x) == round_to(x, 1)
round_amount(x) == round_to(x, 2)

\* the parameter domains of the path simulator (spec.md 4.2)
ValidParams(a) ==
    /\ IsFinite(a.S0) /\ a.S0.v > 0
    /\ IsFinite(a.mu)
    /\ IsFinite(a.sigma) /\ a.sigma.v >= 0
    /\ IsFinite(a.T) /\ a.T.v > 0
    /\ a.steps >= 1
    /\ a.n_sims >= 1

GbmArgs(S0, mu, sigma, T, steps, n_sims, seed) ==
    [S0 |-> S0, mu |-> mu, sigma |-> sigma, T |-> T, steps |-> steps,
     n_sims |-> n_sims, seed |-> seed]

\* the arguments of the direct calls of simulate_gbm: a grid of valid ones,
\* and a valid one with one argument out of its domain
ValidGbmArgs ==
    { GbmArgs(S0, mu, sigma, Lit(1, 0), steps, n_sims, seed) :
        S0 \in {Lit(1, 0), Lit(2, 0)}, mu \in {Lit(-8, 0), Lit(1, 0)},
        sigma \in {Lit(1, 0)}, steps \in 1..MaxSteps,
        n_sims \in 1..MaxSims, seed \in {1, DefaultSeed} }

BaseGbmArgs == GbmArgs(Lit(1, 0), Lit(1, 0), Lit(1, 0), Lit(1, 0), 1, 1, DefaultSeed)

InvalidGbmArgs ==
    { [BaseGbmArgs EXCEPT !.S0 = x] : x \in {NaN, PInf, Lit(0, 0), Lit(-1, 0)} }
    \cup { [BaseGbmArgs EXCEPT !.mu = x] : x \in {NaN, PInf} }
    \cup { [BaseGbmArgs EXCEPT !.sigma = x] : x \in {NaN, Lit(-1, 0)} }
    \cup { [BaseGbmArgs EXCEPT !.T = x] : x \in {NaN, Lit(0, 0), Lit(-1, 0)} }
    \cup { [BaseGbmArgs EXCEPT !.steps = x] : x \in {0, -1} }
    \cup { [BaseGbmArgs EXCEPT !.n_sims = x] : x \in {0, -1} }

\* the boundary of the domain: no volatility
FlatGbmArgs ==
    { [BaseGbmArgs EXCEPT !.sigma = Lit(0, 0), !.mu = m, !.steps = MaxSteps] :
        m \in {Lit(-8, 0), Lit(0, 0)} }

AllGbmArgs == ValidGbmArgs \cup FlatGbmArgs \cup InvalidGbmArgs

\* simulate_gbm on each of these arguments
gbm_result ==
    [a \in AllGbmArgs |->
        simulate_gbm(a.S0, a.mu, a.sigma, a.T, a.steps, a.n_sims, a.seed)]

NoCall == [args |-> BaseGbmArgs, ret |-> [err |-> "none", paths |-> <<>>, rng |-> 0]]

\* ------------------------------------------------------- run_monte_carlo
\* the tickers requested, and ticker.upper().strip() of each
Tickers == {" aapl ", "MSFT"}
upper_strip(t) == IF t = " aapl " THEN "AAPL" ELSE t

\* what yf.download hands back: nothing, or a table of some columns whose
\* price column holds the prices, some of them missing
NoData == [kind |-> "None", cols |-> {}, prices |-> <<>>]
PriceVals == {Lit(10, 0), Lit(7, 0), Missing}
ColSets == {{"Close"}, {"Adj Close", "Close"}, {"Open"}}

RECURSIVE SeqsUpTo(_, _)
\* the sequences over S of length at most n
SeqsUpTo(S, n) ==
    IF n = 0 THEN {<<>>}
    ELSE LET shorter == SeqsUpTo(S, n - 1)
         IN shorter \cup {Append(q, x) : q \in shorter, x \in S}

Tables ==
    {[kind |-> "frame", cols |-> {"Close"}, prices |-> q] :
        q \in SeqsUpTo(PriceVals, MaxLen)}
    \cup {[kind |-> "frame", cols |-> c, prices |-> q] :
            c \in ColSets, q \in SeqsUpTo(PriceVals, 1)}

\* the arguments of a call: the endpoint passes the ticker alone, and the
\* defaults stand at the bounds (steps=252, n_sims=10000, position_shares=200
\* in the program); a direct caller passes any
Position == {Lit(-1, 0), Lit(2, 0)}
DefaultArgs(t) ==
    [ticker |-> t, horizon_years |-> Lit(1, 0), steps |-> MaxSteps,
     n_sims |-> MaxSims, position_shares |-> Lit(2, 0), via |-> "endpoint"]
DirectArgs ==
    {[ticker |-> t, horizon_years |-> Lit(1, 0), steps |-> st, n_sims |-> n,
      position_shares |-> p, via |-> "direct"] :
        t \in {"MSFT"}, st \in 1..MaxSteps, n \in 1..MaxSims, p \in Position}
CallArgs == DirectArgs \cup {DefaultArgs(t) : t \in Tickers}

NoErr == [kind |-> "", ticker |-> ""]
NoEst ==
    [S0 |-> NaN, n_returns |-> 0, mu_daily |-> NaN, sigma_daily |-> NaN,
     mu_annual |-> NaN, sigma_annual |-> NaN]
NoRisk ==
    [terminal_prices |-> <<>>, terminal_returns |-> <<>>, pnl |-> <<>>,
     VaR95_ret |-> NaN, ES95_ret |-> NaN, VaR95_pnl |-> NaN, ES95_pnl |-> NaN]
NoResult == [ticker |-> ""]
NoResponse == [status_code |-> 0, error |-> ""]

gbmVars == <<gbm, gbmRef, gbmOther>>
locals == <<close, est, S_paths, risk, result>>
runVars == <<pc, call, attempt, tried, data, close, est, S_paths, risk, result, err, response>>
vars == <<rng, gbm, gbmRef, gbmOther, pc, call, attempt, tried, data, close, est,
          S_paths, risk, result, err, response>>

ArgsOf(c) ==
    [ticker |-> upper_strip(c.ticker), horizon_years |-> c.horizon_years,
     steps |-> c.steps, n_sims |-> c.n_sims,
     position_shares |-> c.position_shares, via |-> c.via]

\* a call of run_monte_carlo, by the endpoint or directly (line 49)
Request ==
    /\ pc \in {"idle", "responded", "returned", "raised"}
    /\ pc \in {"returned", "raised"} => call.via = "direct"
    /\ \E c \in CallArgs : call' = ArgsOf(c)
    /\ pc' = "download"
    /\ attempt' = 0
    /\ tried' = <<>>
    /\ data' = NoData
    /\ close' = <<>> /\ est' = NoEst /\ S_paths' = <<>> /\ risk' = NoRisk
    /\ result' = NoResult /\ err' = NoErr /\ response' = NoResponse
    /\ UNCHANGED <<rng, gbmVars>>

\* lines 53-63: the attempt ends; a table with rows ends the loop
AfterAttempt(outcome, table) ==
    /\ tried' = Append(tried, outcome)
    /\ data' = table
    /\ IF outcome = "data"
       THEN pc' = "loaded" /\ attempt' = attempt
       ELSE IF attempt + 1 < MaxAttempts
       THEN pc' = "download" /\ attempt' = attempt + 1
       ELSE pc' = "loaded" /\ attempt' = attempt
    /\ UNCHANGED <<rng, gbmVars, call, locals, err, response>>

\* yf.download returns a table with rows
DownloadData ==
    /\ pc = "download"
    /\ \E t \in Tables : Len(t.prices) > 0 /\ AfterAttempt("data", t)

\* yf.download returns a table without rows
DownloadEmpty ==
    /\ pc = "download"
    /\ \E t \in Tables : Len(t.prices) = 0 /\ AfterAttempt("empty", t)

\* yf.download returns None
DownloadNone ==
    /\ pc = "download"
    /\ AfterAttempt("none", NoData)

\* the exception of the first attempt raised again, with no retry
DownloadRaises_no_retry ==
    /\ pc = "download"
    /\ tried' = Append(tried, "raise")
    /\ pc' = "raised"
    /\ err' = [kind |-> "error downloading data", ticker |-> call.ticker]
    /\ UNCHANGED <<rng, gbmVars, call, attempt, data, locals, response>>

\* lines 64-66: yf.download raises; the exception of the attempt numbered 1
\* is raised again as a ValueError naming the ticker, an earlier one is dropped
DownloadRaises ==
    /\ pc = "download"
    /\ tried' = Append(tried, "raise")
    /\ IF attempt = 1
       THEN /\ pc' = "raised"
            /\ err' = [kind |-> "error downloading data", ticker |-> call.ticker]
            /\ attempt' = attempt
       ELSE /\ err' = err
            /\ IF attempt + 1 < MaxAttempts
               THEN pc' = "download" /\ attempt' = attempt + 1
               ELSE pc' = "loaded" /\ attempt' = attempt
    /\ UNCHANGED <<rng, gbmVars, call, data, locals, response>>

\* data[price_col].dropna() where price_col is "Adj Close" if the table has
\* it, else "Close"
price_col(cols) == IF "Adj Close" \in cols THEN "Adj Close" ELSE "Close"

Raise(kind) ==
    /\ pc' = "raised"
    /\ err' = [kind |-> kind, ticker |-> call.ticker]

\* the checks without the one of line 76: a price column with no valid
\* price goes on to the estimator
Validate_no_empty_check ==
    /\ pc = "loaded"
    /\ IF data.kind = "None" \/ Len(data.prices) = 0
       THEN Raise("no price data found") /\ close' = close
       ELSE IF price_col(data.cols) \notin data.cols
       THEN Raise("neither 'Adj Close' nor 'Close' found") /\ close' = close
       ELSE pc' = "cleaned" /\ err' = err /\ close' = dropna(data.prices)
    /\ UNCHANGED <<rng, gbmVars, call, attempt, tried, data, est, S_paths, risk,
                   result, response>>

\* lines 68-77: the checks of the downloaded table
Validate ==
    /\ pc = "loaded"
    /\ IF data.kind = "None" \/ Len(data.prices) = 0
       THEN Raise("no price data found") /\ close' = close
       ELSE IF price_col(data.cols) \notin data.cols
       THEN Raise("neither 'Adj Close' nor 'Close' found") /\ close' = close
       ELSE IF Len(dropna(data.prices)) = 0
       THEN Raise("no valid prices found") /\ close' = dropna(data.prices)
       ELSE pc' = "cleaned" /\ err' = err /\ close' = dropna(data.prices)
    /\ UNCHANGED <<rng, gbmVars, call, attempt, tried, data, est, S_paths, risk,
                   result, response>>

\* lines 80-86: the estimates; mu_daily is a Python float, whose power
\* raises OverflowError where it overflows
Estimate ==
    /\ pc = "cleaned"
    /\ est' = estimate(close)
    /\ IF PowOverflows(FAdd(Lit(1, 0), est'.mu_daily), TradingDays)
       THEN Raise("OverflowError")
       ELSE pc' = "estimated" /\ err' = err
    /\ UNCHANGED <<rng, gbmVars, call, attempt, tried, data, close, S_paths, risk,
                   result, response>>

\* line 89: the paths, with the default seed
Simulate ==
    /\ pc = "estimated"
    /\ LET r == simulate_gbm(est.S0, est.mu_annual, est.sigma_annual,
                             call.horizon_years, call.steps, call.n_sims, DefaultSeed)
       IN /\ rng' = r.rng
          /\ IF r.err # ""
             THEN Raise(r.err) /\ S_paths' = S_paths
             ELSE pc' = "simulated" /\ err' = err /\ S_paths' = r.paths
    /\ UNCHANGED <<gbmVars, call, attempt, tried, data, close, est, risk, result,
                   response>>

\* lines 90-99: the risk metrics
Analyse ==
    /\ pc = "simulated"
    /\ risk' = risk_metrics(S_paths, est.S0, call.position_shares)
    /\ pc' = "analysed"
    /\ UNCHANGED <<rng, gbmVars, call, attempt, tried, data, close, est, S_paths,
                   result, err, response>>

AllFinite(xs) == \A i \in 1..Len(xs) : IsFinite(xs[i])

\* lines 119-134: the record (the two images left out)
result_record ==
    [ticker |-> call.ticker,
     spot_price |-> round_amount(est.S0),
     mu_annual |-> round_ratio(est.mu_annual),
     sigma_annual |-> round_ratio(est.sigma_annual),
     mean_return |-> round_ratio(mean(risk.terminal_returns)),
     std_return |-> round_ratio(array_std(risk.terminal_returns)),
     VaR95_return |-> round_ratio(risk.VaR95_ret),
     ES95_return |-> round_ratio(risk.ES95_ret),
     mean_pnl |-> round_amount(mean(risk.pnl)),
     std_pnl |-> round_amount(array_std(risk.pnl)),
     VaR95_pnl |-> round_amount(risk.VaR95_pnl),
     ES95_pnl |-> round_amount(risk.ES95_pnl)]

\* lines 101-134: the plots and the record.  The histogram of prices that are
\* not all finite has no finite range: the plotting library may raise.
Return ==
    /\ pc = "analysed"
    /\ \/ pc' = "returned" /\ result' = result_record /\ err' = err
       \/ ~AllFinite(risk.terminal_prices) /\ Raise("ValueError") /\ result' = result
    /\ UNCHANGED <<rng, gbmVars, call, attempt, tried, data, close, est, S_paths,
                   risk, response>>

NumberFields ==
    {"spot_price", "mu_annual", "sigma_annual", "mean_return", "std_return",
     "VaR95_return", "ES95_return", "mean_pnl", "std_pnl", "VaR95_pnl", "ES95_pnl"}
RecordFinite(r) == \A f \in NumberFields : IsFinite(r[f])

\* lines 137-143: the endpoint answers with the record, or with status 400
\* and the exception's text; a record holding a number that is not finite
\* may fail to serialise, which is an exception like any other
Respond ==
    /\ pc \in {"returned", "raised"}
    /\ call.via = "endpoint"
    /\ \/ /\ pc = "returned"
          /\ response' = [status_code |-> 200, error |-> ""]
       \/ /\ pc = "returned"
          /\ ~RecordFinite(result)
          /\ response' = [status_code |-> 400, error |-> "ValueError"]
       \/ /\ pc = "raised"
          /\ response' = [status_code |-> 400, error |-> err.kind]
    /\ pc' = "responded"
    /\ UNCHANGED <<rng, gbmVars, call, attempt, tried, data, locals, err>>

\* a direct call of simulate_gbm
CallSimulateGbm ==
    \E a \in AllGbmArgs :
        LET r == gbm_result[a]
        IN /\ gbm' = [args |-> a, ret |-> r]
           /\ rng' = r.rng
           /\ \/ gbmRef' = gbmRef /\ gbmOther' = (gbmOther \/ (gbmRef # NoCall /\ a # gbmRef.args))
              \/ gbm # NoCall /\ gbmRef' = gbm /\ gbmOther' = (a # gbm.args)
           /\ UNCHANGED runVars

InitRun ==
    /\ pc = "idle" /\ call = ArgsOf(DefaultArgs("MSFT")) /\ attempt = 0
    /\ tried = <<>> /\ data = NoData /\ close = <<>> /\ est = NoEst
    /\ S_paths = <<>> /\ risk = NoRisk /\ result = NoResult /\ err = NoErr
    /\ response = NoResponse

Init == rng = 0 /\ gbm = NoCall /\ gbmRef = NoCall /\ gbmOther = FALSE /\ InitRun

Next ==
    \/ Request
    \/ DownloadData
    \/ DownloadEmpty
    \/ DownloadNone
    \/ DownloadRaises
    \/ Validate
    \/ Estimate
    \/ Simulate
    \/ Analyse
    \/ Return
    \/ Respond

Spec == Init /\ [][Next]_vars

\* the path simulator called directly
NextGbm == CallSimulateGbm

SpecGbm == Init /\ [][NextGbm]_vars

\* the risk metrics and the record on any path matrix: one step, S0 in
\* column 0, any terminal prices, any position
TermVals == {Lit(0, 0), Lit(0, 50), Lit(1, 0), Lit(1, 50), Lit(3, 0), PInf, NaN}
RiskPositions == {Lit(-1, 0), Lit(0, 0), Lit(0, 50), Lit(2, 0)}

InitRisk ==
    /\ rng = 0 /\ gbm = NoCall /\ gbmRef = NoCall /\ gbmOther = FALSE
    /\ pc = "simulated"
    /\ attempt = 0 /\ tried = <<"data">> /\ data = NoData /\ close = <<>>
    /\ risk = NoRisk /\ result = NoResult /\ err = NoErr /\ response = NoResponse
    /\ \E s \in {Lit(1, 0), Lit(2, 0)} :
         /\ est = [NoEst EXCEPT !.S0 = s]
         /\ \E q \in SeqsUpTo(TermVals, MaxSims) :
              /\ Len(q) >= 1
              /\ S_paths = [i \in 1..Len(q) |-> <<s, q[i]>>]
              /\ \E p \in RiskPositions :
                   call = [ticker |-> "MSFT", horizon_years |-> Lit(1, 0), steps |-> 1,
                           n_sims |-> Len(q), position_shares |-> p, via |-> "direct"]

NextRisk == Analyse \/ Return

SpecRisk == InitRisk /\ [][NextRisk]_vars
\* ------------------------------------------------------------- properties
\* the call has gone past the download loop
LoopOver == pc \notin {"idle", "download"}
\* the call went on to estimate, simulate or return
PastValidation == pc \in {"cleaned", "estimated", "simulated", "analysed", "returned"}
\* simulate_gbm was called and returned
Simulated == pc \in {"simulated", "analysed", "returned"}
\* the call ended with an exception
Failed == pc = "raised" \/ (pc = "responded" /\ err # NoErr)
\* nothing was computed from defaults: no estimate, no path, no record
NothingComputed == est = NoEst /\ S_paths = <<>> /\ risk = NoRisk /\ result = NoResult

Positive(x) == FLt(Lit(0, 0), x)

\* C1: with fewer than 2 valid prices left after cleaning, run_monte_carlo
\* raises and never reaches the path simulation nor returns a record.
C1_InsufficientDataRejected ==
    (PastValidation \/ Failed) /\ tried # <<>> /\ tried[Len(tried)] = "data"
        /\ Len(dropna(data.prices)) < 2 /\ price_col(data.cols) \in data.cols
    => ~Simulated /\ result = NoResult

\* C2: simulate_gbm called with a parameter that is not finite or out of its
\* domain raises and returns no matrix.
C2_InvalidParamsRejected ==
    gbm # NoCall /\ ~ValidParams(gbm.args)
    => gbm.ret.err # "" /\ gbm.ret.paths = <<>>

\* every download attempt returned nothing or a table without rows
AllAttemptsEmpty ==
    LoopOver /\ \A i \in 1..Len(tried) : tried[i] \in {"none", "empty"}
\* a table came, and its price column is empty once the missing values go
EmptyAfterCleaning ==
    /\ LoopOver /\ data.kind = "frame" /\ Len(data.prices) > 0
    /\ price_col(data.cols) \in data.cols
    /\ Len(dropna(data.prices)) = 0

\* C3: for an identifier with no usable price history (every download
\* attempt returned nothing or an empty table, or the price column is empty
\* after dropping the missing values) run_monte_carlo raises an error whose
\* message says so and names the ticker; it returns no record and computes
\* nothing from substituted defaults.
C3_NoHistoryRaises ==
    /\ AllAttemptsEmpty \/ EmptyAfterCleaning
       => /\ pc \in {"loaded", "raised", "responded"}
          /\ NothingComputed
          /\ response.status_code # 200
    /\ AllAttemptsEmpty /\ pc # "loaded"
       => err = [kind |-> "no price data found", ticker |-> call.ticker]
    /\ EmptyAfterCleaning /\ pc # "loaded"
       => err = [kind |-> "no valid prices found", ticker |-> call.ticker]

C3_Witness ==
    /\ pc = "responded"
    /\ tried = <<"none", "empty">>
    /\ response = [status_code |-> 400, error |-> "no price data found"]
    /\ call.ticker = "AAPL"

\* C4: for valid parameters every row of the matrix simulate_gbm returns
\* holds S0 in column 0 (and steps more entries).
C4_ColumnZeroIsSpot ==
    gbm # NoCall /\ ValidParams(gbm.args)
    => /\ gbm.ret.err = ""
       /\ Len(gbm.ret.paths) = gbm.args.n_sims
       /\ \A i \in 1..Len(gbm.ret.paths) :
            /\ Len(gbm.ret.paths[i]) = gbm.args.steps + 1
            /\ gbm.ret.paths[i][1] = gbm.args.S0

C4_Witness ==
    /\ gbm # NoCall /\ ValidParams(gbm.args)
    /\ gbm.args.n_sims = 2 /\ gbm.args.steps = 2
    /\ gbm.ret.paths[1][2] # gbm.args.S0
    /\ gbm.ret.paths[1][3] # gbm.args.S0
    /\ gbm.ret.paths[2][2] # gbm.ret.paths[1][2]

\* C5: two calls of simulate_gbm with the same seed and parameters return
\* the same matrix, whatever calls were made before or between them.
C5_Deterministic ==
    gbm # NoCall /\ gbmRef # NoCall /\ gbm.args = gbmRef.args
    => gbm.ret.err = gbmRef.ret.err /\ gbm.ret.paths = gbmRef.ret.paths

C5_Witness ==
    /\ gbm # NoCall /\ gbmRef # NoCall /\ gbm.args = gbmRef.args
    /\ gbmOther
    /\ ValidParams(gbm.args) /\ gbm.args.n_sims >= 2
    /\ gbm.ret.paths[1] # gbm.ret.paths[2]

\* the metrics were computed
Analysed == pc \in {"analysed", "returned"}
TailNonEmpty(xs, bound) == \E i \in 1..Len(xs) : FLe(xs[i], bound)

C7_SinglePath ==
    Analysed /\ call.n_sims = 1
    => /\ tail_of(risk.terminal_returns, risk.VaR95_ret) = risk.terminal_returns
       /\ FEq(risk.VaR95_ret, risk.terminal_returns[1])
       /\ FEq(risk.ES95_ret, risk.terminal_returns[1])
       /\ tail_of(risk.pnl, risk.VaR95_pnl) = risk.pnl
       /\ FEq(risk.VaR95_pnl, risk.pnl[1])
       /\ FEq(risk.ES95_pnl, risk.pnl[1])

\* C8: for a cleaned series of at least 2 prices the estimator hands the
\* simulator a defined, non-negative sigma_daily and sigma_annual, with
\* sigma_annual = sigma_daily * sqrt(252).
C8_SigmaDefined ==
    pc \in {"estimated", "simulated", "analysed", "returned"} /\ Len(close) >= 2
    => /\ IsFinite(est.sigma_daily) /\ est.sigma_daily.v >= 0
       /\ IsFinite(est.sigma_annual) /\ est.sigma_annual.v >= 0
       /\ est.sigma_annual = FMul(est.sigma_daily, FSqrtInt(TradingDays))

\* C9: for valid parameters every entry of the matrix simulate_gbm returns
\* is strictly positive.
C9_AllPositive ==
    gbm # NoCall /\ ValidParams(gbm.args)
    => \A i \in 1..Len(gbm.ret.paths) :
         \A j \in 1..Len(gbm.ret.paths[i]) : Positive(gbm.ret.paths[i][j])

=============================================================================
